---------------------------- MODULE Spec2Model ----------------------------
(***************************************************************************)
(* A model of mapactionpy_controller's layer-resolution and product-       *)
(* assembly code: plugin_base.BaseRunnerPlugin and recipe_layer.RecipeLayer*)
(*                                                                         *)
(* Strings (file names, paths, regular expressions) are sequences of       *)
(* one-character strings, so that glob matching, str.replace, int(),       *)
(* os.path.splitext, os.path.basename and sorted() are computed on the     *)
(* characters as the Python code computes them.                            *)
(***************************************************************************)
EXTENDS Integers, Sequences, FiniteSets, TLC

VARIABLES
    fs,       \* the file system: path -> [kind : {"file","dir"}, data : bytes]
    recipe,   \* the MapRecipe threaded through the plugin's steps
    args,     \* the arguments drawn for the function under study
    result,   \* what the last call returned or raised
    layers,   \* the RecipeLayer objects: identity -> the object's __dict__
    recipes,  \* the MapRecipe objects being processed: identity -> all_layers()
    procs     \* the processes running _create_export_dir: their position and locals

vars == <<fs, recipe, args, result, layers, recipes, procs>>


\* No call made yet.
NoResult == [op |-> "none", raised |-> ""]

(***************************************************************************)
(* Python values                                                           *)
(***************************************************************************)
\* None for a path, a name or a list: like the empty string it is falsy, and
\* every test the code makes of such a field is a truth test.
None == <<>>

(***************************************************************************)
(* Characters and strings                                                  *)
(***************************************************************************)
Digits == <<"0", "1", "2", "3", "4", "5", "6", "7", "8", "9">>

IsDigit(c) == \E i \in 1..10 : Digits[i] = c

DigitVal(c) == (CHOOSE i \in 1..10 : Digits[i] = c) - 1

\* ord(c) for the characters the model uses (ASCII).
Ord(c) ==
    CASE c = "-" -> 45
      [] c = "." -> 46
      [] c = "/" -> 47
      [] IsDigit(c) -> 48 + DigitVal(c)
      [] c = "A" -> 65
      [] c = "B" -> 66
      [] c = "M" -> 77
      [] c = "_" -> 95
      [] c = "a" -> 97
      [] c = "b" -> 98
      [] c = "c" -> 99
      [] c = "d" -> 100
      [] c = "e" -> 101
      [] c = "k" -> 107
      [] c = "l" -> 108
      [] c = "m" -> 109
      [] c = "o" -> 111
      [] c = "p" -> 112
      [] c = "s" -> 115
      [] c = "t" -> 116
      [] c = "v" -> 118
      [] c = "x" -> 120
      [] c = "z" -> 122

\* s1 < s2 as Python compares str: by code point, a proper prefix first.
RECURSIVE StrLess(_, _)
StrLess(s1, s2) ==
    IF s2 = <<>> THEN FALSE
    ELSE IF s1 = <<>> THEN TRUE
    ELSE IF Head(s1) = Head(s2) THEN StrLess(Tail(s1), Tail(s2))
    ELSE Ord(Head(s1)) < Ord(Head(s2))

\* s.startswith(prefix)
StartsWith(s, prefix) ==
    /\ Len(prefix) <= Len(s)
    /\ SubSeq(s, 1, Len(prefix)) = prefix

\* s.endswith(suffix)
EndsWith(s, suffix) ==
    /\ Len(suffix) <= Len(s)
    /\ SubSeq(s, Len(s) - Len(suffix) + 1, Len(s)) = suffix

\* s.replace(old, ''): every non-overlapping occurrence of old, leftmost
\* first, is removed (old is never empty here).
RECURSIVE Remove(_, _)
Remove(s, old) ==
    IF s = <<>> THEN <<>>
    ELSE IF StartsWith(s, old) THEN Remove(SubSeq(s, Len(old) + 1, Len(s)), old)
    ELSE <<Head(s)>> \o Remove(Tail(s), old)

\* int(s) for a string of decimal digits; -1 where int() raises ValueError.
RECURSIVE DigitsValue(_)
DigitsValue(s) ==
    IF s = <<>> THEN 0 ELSE 10 * DigitsValue(SubSeq(s, 1, Len(s) - 1)) + DigitVal(s[Len(s)])

ParseInt(s) ==
    IF s # <<>> /\ \A i \in 1..Len(s) : IsDigit(s[i]) THEN DigitsValue(s) ELSE -1

\* str(n).zfill(2) for 0 <= n
RECURSIVE Str(_)
Str(n) == IF n < 10 THEN <<Digits[n + 1]>> ELSE Str(n \div 10) \o <<Digits[(n % 10) + 1]>>

ZFill2(n) == IF n < 10 THEN <<"0">> \o Str(n) ELSE Str(n)

(***************************************************************************)
(* Paths (os.path)                                                         *)
(***************************************************************************)
Sep == <<"/">>

\* The index of the last "/" of p, 0 when there is none.
LastSep(p) ==
    IF \E i \in 1..Len(p) : p[i] = "/"
    THEN CHOOSE i \in 1..Len(p) : p[i] = "/" /\ \A j \in (i + 1)..Len(p) : p[j] # "/"
    ELSE 0

\* os.path.basename(p)
Basename(p) == SubSeq(p, LastSep(p) + 1, Len(p))

\* os.path.dirname(p), for paths below the root
Dirname(p) == SubSeq(p, 1, LastSep(p) - 1)

\* os.path.join(d, name) for a relative name
Join(d, name) == d \o Sep \o name

IsFile(p) == p \in DOMAIN fs /\ fs[p].kind = "file"

IsDir(p) == p \in DOMAIN fs /\ fs[p].kind = "dir"

Exists(p) == p \in DOMAIN fs

\* The sequences that enumerate the finite set S once each, in any order:
\* the orders in which os.listdir / glob.glob may list a directory.
RECURSIVE Orderings(_)
Orderings(S) ==
    IF S = {} THEN {<<>>}
    ELSE UNION {{<<x>> \o rest : rest \in Orderings(S \ {x})} : x \in S}

Range(s) == {s[i] : i \in 1..Len(s)}

(***************************************************************************)
(* Regular expressions (re).  A pattern is a string of literal characters  *)
(* and of "." which matches any character: the part of the syntax the      *)
(* model's patterns use.                                                   *)
(***************************************************************************)
\* c.lower()
Lower(c) ==
    CASE c = "A" -> "a"
      [] c = "B" -> "b"
      [] c = "M" -> "m"
      [] OTHER -> c

\* The pattern matches s from position i + 1 on.
MatchesAt(pattern, s, i, ignorecase) ==
    /\ i + Len(pattern) <= Len(s)
    /\ \A k \in 1..Len(pattern) :
          \/ pattern[k] = "."
          \/ pattern[k] = s[i + k]
          \/ ignorecase /\ Lower(pattern[k]) = Lower(s[i + k])

\* re.search(pattern, s): a match anywhere in s
ReSearch(pattern, s) == \E i \in 0..Len(s) : MatchesAt(pattern, s, i, FALSE)

\* re.match(pattern, s, re.IGNORECASE): a match at the start of s
ReMatchIgnoreCase(pattern, s) == MatchesAt(pattern, s, 0, TRUE)

\* The index of the "." that starts the extension of p, 0 when p has none
\* (os.path.splitext: the last dot after the last separator, unless only
\* dots precede it in the file name).
ExtDot(p) ==
    LET dots == {i \in (LastSep(p) + 1)..Len(p) : p[i] = "."}
        last == CHOOSE i \in dots : \A j \in dots : j <= i
    IN  IF dots = {} THEN 0
        ELSE IF \E k \in (LastSep(p) + 1)..(last - 1) : p[k] # "." THEN last
        ELSE 0

\* os.path.splitext(p)[0]
SplitExtRoot(p) == IF ExtDot(p) = 0 THEN p ELSE SubSeq(p, 1, ExtDot(p) - 1)

\* os.path.splitext(p)[1]
SplitExtExt(p) == IF ExtDot(p) = 0 THEN <<>> ELSE SubSeq(p, ExtDot(p), Len(p))

(***************************************************************************)
(* plugin_base.py: get_next_map_version_number                             *)
(***************************************************************************)
MxdExt == <<".", "m", "x", "d">>

\* The directory entries glob.glob(mapNumberDirectory + os.sep + mapNumber +
\* '-v[0-9][0-9]-' + mapFileName + '.mxd') matches.
GlobVersionedFiles(mapNumberDirectory, mapNumber, mapFileName) ==
    LET prefix == mapNumber \o <<"-", "v">>
        suffix == <<"-">> \o mapFileName \o MxdExt
    IN  {p \in DOMAIN fs :
            /\ Dirname(p) = mapNumberDirectory
            /\ LET b == Basename(p)
               IN  /\ Len(b) = Len(prefix) + 2 + Len(suffix)
                   /\ StartsWith(b, prefix)
                   /\ IsDigit(b[Len(prefix) + 1])
                   /\ IsDigit(b[Len(prefix) + 2])
                   /\ EndsWith(b, suffix)}

\* int(os.path.basename(file).replace(mapNumber + '-v', '')
\*                            .replace('-' + mapFileName + '.mxd', ''))
ParseVersion(file, mapNumber, mapFileName) ==
    ParseInt(Remove(Remove(Basename(file), mapNumber \o <<"-", "v">>),
                    <<"-">> \o mapFileName \o MxdExt))

\* The for loop over files: versionNumber after the last iteration, starting
\* from versionNumber; -1 when an int() raised ValueError on the way.
RECURSIVE VersionLoop(_, _, _, _)
VersionLoop(files, versionNumber, mapNumber, mapFileName) ==
    IF files = <<>> THEN versionNumber
    ELSE LET v == ParseVersion(Head(files), mapNumber, mapFileName)
         IN  IF v = -1 THEN -1
             ELSE VersionLoop(Tail(files), v, mapNumber, mapFileName)

\* get_next_map_version_number, given the order in which glob listed the
\* matching files.
NextMapVersionNumber(files, mapNumber, mapFileName) ==
    LET versionNumber == VersionLoop(files, 0, mapNumber, mapFileName)
    IN  IF versionNumber = -1 THEN -1 ELSE versionNumber + 1

(***************************************************************************)
(* The version scan on its own: an output directory with any content, and  *)
(* get_next_map_version_number called on it.                               *)
(***************************************************************************)
\* The highest version number among the project files of the directory.
MaxVersion == 5

MapProjects == <<"/", "p">>

MapNumbers == {<<"M", "1">>}

\* slugify(recipe.product) of the products made
Products == {<<"a">>, <<"b">>}

\* '{}-v{}-{}'.format(mapnumber, str(version_num).zfill(2), output_map_base)
CoreFileName(mapnumber, version_num, output_map_base) ==
    mapnumber \o <<"-", "v">> \o ZFill2(version_num) \o <<"-">> \o output_map_base

OutputDir(mapnumber) == Join(MapProjects, mapnumber)

ProjectFile(mapnumber, version_num, output_map_base) ==
    Join(OutputDir(mapnumber), CoreFileName(mapnumber, version_num, output_map_base) \o MxdExt)

\* Files of the output directory that are no project file of product "a":
\* another product's, a one-digit version, another extension.
OtherFiles ==
    { ProjectFile(<<"M", "1">>, 3, <<"b">>),
      Join(OutputDir(<<"M", "1">>), <<"M", "1", "-", "v", "4", "-", "a">> \o MxdExt),
      Join(OutputDir(<<"M", "1">>), <<"M", "1", "-", "v", "0", "4", "-", "a", ".", "t">>) }

VersionedFiles == {ProjectFile(<<"M", "1">>, v, <<"a">>) : v \in 1..MaxVersion}

EmptyFile == [kind |-> "file", data |-> <<>>]

Directory == [kind |-> "dir", data |-> <<>>]

TypeOKFs == \A p \in DOMAIN fs : fs[p].kind \in {"file", "dir"}

\* The most project files of one product in the directory.
MaxProjectFiles == 3

InitVersion ==
    /\ \E present \in {S \in SUBSET (VersionedFiles \cup OtherFiles) :
                            Cardinality(S \cap VersionedFiles) <= MaxProjectFiles} :
          fs = [p \in present \cup {OutputDir(<<"M", "1">>)} |->
                    IF p \in present THEN EmptyFile ELSE Directory]
    /\ recipe = None
    /\ args = None
    /\ result = NoResult
    /\ layers = <<>> /\ recipes = <<>> /\ procs = <<>>

GetNextMapVersionNumber ==
    \E mapNumber \in MapNumbers, mapFileName \in Products :
      \E files \in Orderings(GlobVersionedFiles(OutputDir(mapNumber), mapNumber, mapFileName)) :
        LET versionNumber == NextMapVersionNumber(files, mapNumber, mapFileName)
        IN  /\ result' = [op |-> "get_next_map_version_number",
                          mapNumberDirectory |-> OutputDir(mapNumber),
                          mapNumber |-> mapNumber,
                          mapFileName |-> mapFileName,
                          files |-> files,
                          raised |-> IF versionNumber = -1 THEN "ValueError" ELSE "",
                          value |-> versionNumber]
            /\ UNCHANGED <<fs, recipe, args, layers, recipes, procs>>

NextVersion == GetNextMapVersionNumber

SpecVersion == InitVersion /\ [][NextVersion]_vars

\* The two-digit versions of the files <map_number>-v##-<base_name>.mxd of
\* the directory.
VersionsIn(mapNumberDirectory, mapNumber, mapFileName) ==
    {v \in 0..99 : Join(mapNumberDirectory, CoreFileName(mapNumber, v, mapFileName) \o MxdExt)
                      \in DOMAIN fs}

SetMax(S) == IF S = {} THEN 0 ELSE CHOOSE m \in S : \A x \in S : x <= m

\* C1: get_next_map_version_number returns 1 + the maximum version over all
\* the files <map_number>-v##-<base_name>.mxd of the directory (0 when none
\* matches), whatever the order in which the directory is listed.
C1_NextVersionIsMaxPlusOne ==
    result.op = "get_next_map_version_number" =>
        /\ result.raised = ""
        /\ result.value =
             1 + SetMax(VersionsIn(result.mapNumberDirectory, result.mapNumber,
                                   result.mapFileName))

(***************************************************************************)
(* IEEE-754 double arithmetic, as far as _get_template_by_aspect_ratio     *)
(* uses it.  An aspect ratio is a double; the model writes the ratio r as  *)
(* the integer 12 * r, and takes its ratios among the powers of two from   *)
(* 0.25 to 16.0 (3, 6, 12, 24, 48, 96, 192), 3.0 (36) and the double       *)
(* nearest to 1/3 (4), 0x1.5555555555555p-2, which is 1/3 - 2^-54 / 3;     *)
(* plus 0.0 and -1.0 for a target.                                         *)
(* A logarithm or a sum of logarithms x is written sgn * (hi * Limb + lo)  *)
(* in units of 2^-53, which is exact for every double the code computes    *)
(* here (|x| is 0 or at least 0.5, and below 8).                           *)
(***************************************************************************)
Limb == 2 ^ 27

FZero == [sgn |-> 0, hi |-> 0, lo |-> 0]

\* math.log(r / 12): the correctly rounded double, the value every IEEE-754
\* libm returns (log(2.0) = 0x1.62e42fefa39efp-1, log(3.0) =
\* 0x1.193ea7aad030bp+0, log(4.0) = 0x1.62e42fefa39efp+0, log(8.0) =
\* 0x1.0a2b23f3bab73p+1, log(16.0) = 0x1.62e42fefa39efp+1, and log(1/x) =
\* -log(x) for these x, the double nearest to 1/3 included).
MathLog(r) ==
    CASE r = 3   -> [sgn |-> -1, hi |-> 93032639, lo |-> 99906526]
      [] r = 4   -> [sgn |-> -1, hi |-> 73726622, lo |-> 89785878]
      [] r = 6   -> [sgn |-> -1, hi |-> 46516319, lo |-> 117062127]
      [] r = 12  -> FZero
      [] r = 24  -> [sgn |-> 1, hi |-> 46516319, lo |-> 117062127]
      [] r = 36  -> [sgn |-> 1, hi |-> 73726622, lo |-> 89785878]
      [] r = 48  -> [sgn |-> 1, hi |-> 93032639, lo |-> 99906526]
      [] r = 96  -> [sgn |-> 1, hi |-> 139548959, lo |-> 82750924]
      [] r = 192 -> [sgn |-> 1, hi |-> 186065279, lo |-> 65595324]

\* |a| < |b|
MagLess(a, b) == a.hi < b.hi \/ (a.hi = b.hi /\ a.lo < b.lo)

\* a > b on doubles
FGreater(a, b) ==
    CASE a.sgn # b.sgn -> a.sgn > b.sgn
      [] a.sgn = 1 /\ b.sgn = 1 -> MagLess(b, a)
      [] a.sgn = -1 /\ b.sgn = -1 -> MagLess(a, b)
      [] OTHER -> FALSE

\* The spacing of the doubles at magnitude hi * Limb + lo, in units of
\* 2^-53: 1 below 1.0, 2 below 2.0, 4 below 4.0, 8 below 8.0.
Spacing(hi) ==
    IF hi < 2 ^ 26 THEN 1
    ELSE IF hi < 2 ^ 27 THEN 2
    ELSE IF hi < 2 ^ 28 THEN 4
    ELSE 8

\* Round to nearest, ties to even: the double nearest to the exact
\* magnitude hi * Limb + lo.
RoundMag(sgn, hi, lo) ==
    LET g    == Spacing(hi)
        r    == lo % g
        down == lo - r
        odd  == (down \div g) % 2 = 1
        up   == (2 * r > g) \/ (2 * r = g /\ odd)
        lo2  == IF up THEN down + g ELSE down
    IN  IF hi = 0 /\ lo2 = 0 THEN FZero
        ELSE IF lo2 = Limb THEN [sgn |-> sgn, hi |-> hi + 1, lo |-> 0]
        ELSE [sgn |-> sgn, hi |-> hi, lo |-> lo2]

\* a + b on doubles: the exact sum, rounded.
FAdd(a, b) ==
    IF a.sgn = 0 THEN b
    ELSE IF b.sgn = 0 THEN a
    ELSE IF a.sgn = b.sgn
    THEN LET lo == a.lo + b.lo
         IN  RoundMag(a.sgn, a.hi + b.hi + (lo \div Limb), lo % Limb)
    ELSE LET big   == IF MagLess(a, b) THEN b ELSE a
             small == IF MagLess(a, b) THEN a ELSE b
             borrow == IF big.lo < small.lo THEN 1 ELSE 0
         IN  RoundMag(big.sgn, big.hi - small.hi - borrow,
                      big.lo - small.lo + borrow * Limb)

\* 2 * a on doubles (exact)
FTwice(a) == [sgn |-> a.sgn, hi |-> 2 * a.hi + ((2 * a.lo) \div Limb), lo |-> (2 * a.lo) % Limb]

(***************************************************************************)
(* plugin_base.py: _get_template_by_aspect_ratio                           *)
(* template_aspect_ratios is a list of <<path, ratio>>.                    *)
(***************************************************************************)
\* max(items) with the key forgotten: tuples compare by path first.
MaxByPath(items) ==
    items[CHOOSE i \in 1..Len(items) :
            \A j \in 1..Len(items) : j # i => StrLess(items[j][1], items[i][1])]

\* max(items, key=itemgetter(1)): the first item of the largest ratio.
MaxByRatio(items) ==
    items[CHOOSE i \in 1..Len(items) :
            /\ \A j \in 1..Len(items) : items[j][2] <= items[i][2]
            /\ \A j \in 1..(i - 1) : items[j][2] < items[i][2]]

\* min(items, key=itemgetter(1)): the first item of the smallest ratio.
MinByRatio(items) ==
    items[CHOOSE i \in 1..Len(items) :
            /\ \A j \in 1..Len(items) : items[j][2] >= items[i][2]
            /\ \A j \in 1..(i - 1) : items[j][2] > items[i][2]]

\* [(templ_path, templ_ar) for templ_path, templ_ar in items if templ_ar >= target_ar]
RECURSIVE RatiosAtLeast(_, _)
RatiosAtLeast(items, target_ar) ==
    IF items = <<>> THEN <<>>
    ELSE (IF Head(items)[2] >= target_ar THEN <<Head(items)>> ELSE <<>>)
             \o RatiosAtLeast(Tail(items), target_ar)

\* [(templ_path, templ_ar) for templ_path, templ_ar in items if templ_ar <= target_ar]
RECURSIVE RatiosAtMost(_, _)
RatiosAtMost(items, target_ar) ==
    IF items = <<>> THEN <<>>
    ELSE (IF Head(items)[2] <= target_ar THEN <<Head(items)>> ELSE <<>>)
             \o RatiosAtMost(Tail(items), target_ar)

\* (2*math.log(target_ar)) > (math.log(larger_ar[1]) + math.log(smaller_ar[1]))
LogCombination(target_ar, larger, smaller) ==
    FGreater(FTwice(MathLog(target_ar)), FAdd(MathLog(larger), MathLog(smaller)))

\* The call's outcome: the path returned, or the exception raised, and the
\* arguments math.log was called with.
GetTemplateByAspectRatio(template_aspect_ratios, target_ar) ==
    IF template_aspect_ratios = <<>>
    THEN [raised |-> "ValueError", value |-> None, logs |-> <<>>]   \* max() of an empty list
    ELSE
    LET most_landscape == MaxByRatio(template_aspect_ratios)
        most_portrait  == MinByRatio(template_aspect_ratios)
        larger_ar  == MinByRatio(RatiosAtLeast(template_aspect_ratios, target_ar))
        smaller_ar == MaxByRatio(RatiosAtMost(template_aspect_ratios, target_ar))
    IN  IF most_landscape[2] < target_ar
        THEN [raised |-> "", value |-> most_landscape[1], logs |-> <<>>]
        ELSE IF most_portrait[2] > target_ar
        THEN [raised |-> "", value |-> most_portrait[1], logs |-> <<>>]
        ELSE IF target_ar <= 0 \/ larger_ar[2] <= 0 \/ smaller_ar[2] <= 0
        THEN [raised |-> "ValueError", value |-> None,                \* math domain error
              logs |-> <<target_ar, larger_ar[2], smaller_ar[2]>>]
        ELSE IF LogCombination(target_ar, larger_ar[2], smaller_ar[2])
        THEN [raised |-> "", value |-> larger_ar[1],
              logs |-> <<target_ar, larger_ar[2], smaller_ar[2]>>]
        ELSE [raised |-> "", value |-> smaller_ar[1],
              logs |-> <<target_ar, larger_ar[2], smaller_ar[2]>>]

(***************************************************************************)
(* Template selection on its own: any list of at most MaxTemplates         *)
(* candidates and any target ratio.                                        *)
(***************************************************************************)
\* The longest candidate list.
MaxTemplates == 3

MapTemplates == <<"/", "t">>

\* The i-th template of the templates directory.
TemplateName(i) == <<"a">> \o Str(i) \o MxdExt

TemplatePath(i) == Join(MapTemplates, TemplateName(i))

\* 0.3333333333333333, 0.5, 1.0, 2.0, 3.0, 4.0, 8.0
Ratios == {4, 6, 12, 24, 36, 48, 96}

\* -1.0, 0.0, 0.25, 0.5, 1.0, 2.0, 4.0, 8.0, 16.0
TargetRatios == {-12, 0, 3, 6, 12, 24, 48, 96, 192}

InitSelect ==
    /\ fs = <<>>
    /\ recipe = None
    /\ \E n \in 0..MaxTemplates : \E ratios \in [1..n -> Ratios] : \E target_ar \in TargetRatios :
          args = [template_aspect_ratios |-> [i \in 1..n |-> <<TemplatePath(i), ratios[i]>>],
                  target_ar |-> target_ar]
    /\ result = NoResult
    /\ layers = <<>> /\ recipes = <<>> /\ procs = <<>>

SelectTemplate ==
    /\ result' = [op |-> "_get_template_by_aspect_ratio"]
                    @@ GetTemplateByAspectRatio(args.template_aspect_ratios, args.target_ar)
    /\ UNCHANGED <<fs, recipe, args, layers, recipes, procs>>

NextSelect == SelectTemplate

SpecSelect == InitSelect /\ [][NextSelect]_vars

Selected == result.op = "_get_template_by_aspect_ratio"

Candidates == args.template_aspect_ratios

CandidateRatios == {Candidates[i][2] : i \in 1..Len(Candidates)}

\* The ratio of the candidate whose path was returned.
SelectedRatio ==
    LET i == CHOOSE i \in 1..Len(Candidates) : Candidates[i][1] = result.value
    IN  Candidates[i][2]

ReturnedACandidate ==
    /\ result.raised = ""
    /\ \E i \in 1..Len(Candidates) : Candidates[i][1] = result.value

\* C4: a target above every candidate's ratio selects a candidate of the
\* largest ratio, a target below every candidate's ratio one of the smallest.
C4_BeyondTheRangeSelectsTheExtreme ==
    (Selected /\ Candidates # <<>>) =>
        /\ (\A r \in CandidateRatios : r < args.target_ar) =>
              /\ ReturnedACandidate
              /\ \A r \in CandidateRatios : r <= SelectedRatio
        /\ (\A r \in CandidateRatios : r > args.target_ar) =>
              /\ ReturnedACandidate
              /\ \A r \in CandidateRatios : r >= SelectedRatio

\* A target four times the largest ratio selected the most landscape
\* candidate, which is not the first of the list.
C4_Witness ==
    /\ Selected
    /\ Len(Candidates) = 3
    /\ args.target_ar = 192
    /\ Candidates[2][2] = 48
    /\ Candidates[1][2] = 6
    /\ Candidates[3][2] = 12
    /\ result.value = TemplatePath(2)

\* The smallest candidate ratio >= target and the largest <= target.
LargerRatio == CHOOSE r \in CandidateRatios :
    r >= args.target_ar /\ \A q \in CandidateRatios : q >= args.target_ar => r <= q

SmallerRatio == CHOOSE r \in CandidateRatios :
    r <= args.target_ar /\ \A q \in CandidateRatios : q <= args.target_ar => q <= r

InRange ==
    /\ Candidates # <<>>
    /\ \E r \in CandidateRatios : r >= args.target_ar
    /\ \E r \in CandidateRatios : r <= args.target_ar

\* How far the double lies below the value its integer stands for, in units
\* of 2^-52: the double nearest to 1/3 is less than 1/3, all others are exact.
BelowItsInteger(r) == IF r = 4 THEN 1 ELSE 0

\* The sign of target^2 - larger * smaller on the values of the doubles.
SquareMinusProduct(target, larger, smaller) ==
    IF target * target > larger * smaller THEN 1
    ELSE IF target * target < larger * smaller THEN -1
    ELSE LET t == 2 * target * BelowItsInteger(target)
             p == larger * BelowItsInteger(smaller) + smaller * BelowItsInteger(larger)
         IN  IF t < p THEN 1 ELSE IF t > p THEN -1 ELSE 0

\* C5: within the range of the candidates the result is larger iff
\* target^2 > larger.ratio * smaller.ratio and smaller otherwise, so that an
\* exact geometric tie selects smaller.
C5_LogMidpointTieSelectsSmaller ==
    (Selected /\ InRange) =>
        /\ ReturnedACandidate
        /\ IF SquareMinusProduct(args.target_ar, LargerRatio, SmallerRatio) = 1
           THEN SelectedRatio = LargerRatio
           ELSE SelectedRatio = SmallerRatio

\* |ln(a) - ln(target)| < |ln(b) - ln(target)| on the values of the doubles
StrictlyCloser(a, b, target) ==
    IF a >= target /\ b >= target THEN a < b
    ELSE IF a <= target /\ b <= target THEN a > b
    ELSE IF a >= target THEN SquareMinusProduct(target, a, b) = 1
    ELSE SquareMinusProduct(target, b, a) = -1

\* C20: for a non-empty candidate list of positive ratios and a positive
\* target the call returns the path of a candidate such that no candidate
\* is strictly closer to the target in |ln(ratio) - ln(target)|, and every
\* argument math.log was called with is positive.
C20_BestMatchInLogDistance ==
    (/\ Selected /\ Candidates # <<>>
     /\ args.target_ar > 0 /\ \A r \in CandidateRatios : r > 0) =>
        /\ ReturnedACandidate
        /\ \A r \in CandidateRatios : ~StrictlyCloser(r, SelectedRatio, args.target_ar)
        /\ \A i \in 1..Len(result.logs) : result.logs[i] > 0

(***************************************************************************)
(* plugin_base.py: get_templates                                           *)
(***************************************************************************)
\* self.get_projectfile_extension() of the plugin in use
ProjectFileExtension == MxdExt

\* _get_all_templates_by_regex, given the order in which os.listdir listed
\* the templates directory.
RECURSIVE AllTemplatesByRegex(_, _)
AllTemplatesByRegex(all_filenames, template) ==
    IF all_filenames = <<>> THEN <<>>
    ELSE LET f == Head(all_filenames)
             is_relevant ==
                 /\ ReSearch(template, f)
                 /\ IsFile(Join(MapTemplates, f))
                 /\ SplitExtExt(f) = ProjectFileExtension
         IN  (IF is_relevant THEN <<Join(MapTemplates, f)>> ELSE <<>>)
                 \o AllTemplatesByRegex(Tail(all_filenames), template)

\* get_aspect_ratios_of_templates, as its contract has the plugin do it: a
\* (path, ratio) for each template, the ratio read from the template file.
AspectRatiosOfTemplates(possible_templates) ==
    [i \in 1..Len(possible_templates) |->
        <<possible_templates[i], fs[possible_templates[i]].data[1]>>]

\* _get_aspect_ratio_of_bounds divides by dy = 0: ZeroDivisionError.
ZeroHeight(bounds) == bounds[4] - bounds[2] = 0

\* _get_aspect_ratio_of_bounds: float(dx)/dy, times 12, on bounds for which
\* the quotient is one of the model's ratios.
AspectRatioOfBounds(bounds) ==
    LET dx == (bounds[3] - bounds[1]) % 360
        dy == bounds[4] - bounds[2]
    IN  (12 * dx) \div dy

\* get_templates from line 173 on, given the order in which os.listdir
\* lists the templates directory: the recipe after the call, what the call
\* raised, and the file-system and collaborator calls it made.
SelectTemplateFor(r, all_filenames) ==
    LET possible_templates == AllTemplatesByRegex(all_filenames, r.template)
        possible_aspect_ratios == AspectRatiosOfTemplates(possible_templates)
        made == <<"os.listdir", "get_aspect_ratios_of_templates", "get_frame">>
    IN  IF r.extent # None /\ ZeroHeight(r.extent)
        THEN [recipe |-> r, raised |-> "ZeroDivisionError",
              message |-> "float division by zero",
              possible_templates |-> possible_templates, calls |-> made]
        ELSE LET target_aspect_ratio ==
                     IF r.extent # None THEN AspectRatioOfBounds(r.extent) ELSE 12
                 sel == GetTemplateByAspectRatio(possible_aspect_ratios, target_aspect_ratio)
             IN  IF sel.raised # ""
                 THEN [recipe |-> r, raised |-> sel.raised,
                       message |-> IF possible_aspect_ratios = <<>>
                                   THEN "max() arg is an empty sequence"
                                   ELSE "math domain error",
                       possible_templates |-> possible_templates,
                       calls |-> made \o <<"_get_template_by_aspect_ratio">>]
                 ELSE [recipe |-> [r EXCEPT !.template_path = sel.value],
                       raised |-> "", message |-> "",
                       possible_templates |-> possible_templates,
                       calls |-> made \o <<"_get_template_by_aspect_ratio">>]

\* get_templates without its lines 167-171.
GetTemplatesWithoutShortCircuit(r, all_filenames) == SelectTemplateFor(r, all_filenames)

\* get_templates(state=r)
GetTemplatesOutcome(r, all_filenames) ==
    IF r.map_project_path # None
    THEN IF Exists(r.map_project_path)
         THEN [recipe |-> r, raised |-> "", message |-> "",
               possible_templates |-> <<>>, calls |-> <<"os.path.exists">>]
         ELSE [recipe |-> r, raised |-> "ValueError",
               message |-> "Unable to locate map project file",
               possible_templates |-> <<>>, calls |-> <<"os.path.exists">>]
    ELSE SelectTemplateFor(r, all_filenames)

\* The names os.listdir(self.cmf.map_templates) returns, as a set.
TemplatesDirListing == {Basename(p) : p \in {q \in DOMAIN fs : Dirname(q) = MapTemplates}}

\* The directory is listed only when the recipe names no project file.
GetTemplates ==
    \E all_filenames \in (IF recipe.map_project_path # None THEN {<<>>}
                          ELSE Orderings(TemplatesDirListing)) :
        LET out == GetTemplatesOutcome(recipe, all_filenames)
        IN  /\ recipe' = out.recipe
            /\ result' = [op |-> "get_templates", raised |-> out.raised,
                          message |-> out.message,
                          possible_templates |-> out.possible_templates,
                          calls |-> out.calls]
            /\ UNCHANGED <<fs, args, layers, recipes, procs>>

(***************************************************************************)
(* get_templates on its own: a templates directory with any of its files   *)
(* present, and a recipe that names a project file or does not.            *)
(***************************************************************************)
\* A file of the templates directory that is no project file.
NotATemplate == <<"a", "9", ".", "t">>

\* recipe.template: the regular expressions "a", "a2" and "c"
TemplatePatterns == {<<"a">>, <<"a", "2">>, <<"c">>}

\* The bounds of the principal map frame: none, 2 x 1, 1 x 2, 20 x 10 across
\* the antimeridian, and 4 x 0.
Extents == {None, <<0, 0, 2, 1>>, <<0, 0, 1, 2>>, <<170, 0, -170, 10>>, <<0, 0, 4, 0>>}

\* The recipe as MapRecipe's constructor leaves it.
NewRecipe ==
    [mapnumber |-> <<"M", "1">>, product |-> <<"a">>, template |-> <<"a">>,
     extent |-> None, template_path |-> None, map_project_path |-> None,
     version_num |-> 0, core_file_name |-> None, export_path |-> None,
     zip_file_contents |-> <<>>]

InitTemplates ==
    \E n \in 0..MaxTemplates : \E ratios \in [1..n -> {6, 96}] :
    \E template \in TemplatePatterns, extent \in Extents,
       map_project_path \in {None, ProjectFile(<<"M", "1">>, 1, <<"a">>)},
       template_path \in {None, TemplatePath(1)}, made \in BOOLEAN :
    LET other == {Join(MapTemplates, NotATemplate)}
                    \cup (IF made THEN {ProjectFile(<<"M", "1">>, 1, <<"a">>)} ELSE {})
    IN
    \* a recipe that names no project file is one no project was made for
    /\ map_project_path = None => template_path = None /\ ~made
    /\ fs = [p \in {MapTemplates} \cup {TemplatePath(i) : i \in 1..n} \cup other |->
                IF p = MapTemplates THEN Directory
                ELSE IF p \in other THEN EmptyFile
                ELSE [kind |-> "file",
                      data |-> <<ratios[CHOOSE i \in 1..n : TemplatePath(i) = p]>>]]
    /\ recipe = [NewRecipe EXCEPT !.template = template, !.extent = extent,
                                  !.map_project_path = map_project_path,
                                  !.template_path = template_path]
    /\ args = None
    /\ result = NoResult
    /\ layers = <<>> /\ recipes = <<>> /\ procs = <<>>

NextTemplates == GetTemplates

SpecTemplates == InitTemplates /\ [][NextTemplates]_vars

\* C6: when recipe.map_project_path is set, get_templates returns the
\* recipe unchanged if that file exists and fails with the "Unable to
\* locate map project file" ValueError if it does not; either way it lists
\* no templates, asks for no aspect ratio and leaves the recipe as it was.
C6_ShortCircuitOnNamedProject ==
    [][(recipe.map_project_path # None /\ result'.op = "get_templates") =>
          /\ recipe' = recipe
          /\ result'.calls = <<"os.path.exists">>
          /\ IF Exists(recipe.map_project_path)
             THEN result'.raised = ""
             ELSE /\ result'.raised = "ValueError"
                  /\ result'.message = "Unable to locate map project file"]_vars

\* get_templates returned a recipe that names an existing project file and
\* no template, although a template matches.
C6_Witness ==
    /\ result.op = "get_templates"
    /\ result.raised = ""
    /\ recipe.map_project_path # None
    /\ recipe.template_path = None
    /\ recipe.template = <<"a">>
    /\ IsFile(TemplatePath(1))

\* No file of the templates directory matches recipe.template and has the
\* project-file extension.
NoMatchingTemplate ==
    \A f \in TemplatesDirListing :
        ~(ReSearch(recipe.template, f) /\ IsFile(Join(MapTemplates, f))
            /\ SplitExtExt(f) = ProjectFileExtension)

\* C7: when no template matches, get_templates fails with the error for an
\* empty candidate list (a ValueError, as every error the plugin raises)
\* and does not set recipe.template_path.
C7_NoMatchingTemplatesFails ==
    [][(recipe.map_project_path = None /\ NoMatchingTemplate
            /\ result'.op = "get_templates") =>
          /\ result'.raised = "ValueError"
          /\ recipe'.template_path = recipe.template_path]_vars

(***************************************************************************)
(* plugin_base.py: _check_paths_for_zip_contents and zip_exported_files    *)
(***************************************************************************)
ZipExt == <<".", "z", "p">>

\* [fp for fp in zip_file_contents if not os.path.isfile(fp)]
RECURSIVE ErroneousPaths(_)
ErroneousPaths(zip_file_contents) ==
    IF zip_file_contents = <<>> THEN <<>>
    ELSE (IF IsFile(Head(zip_file_contents)) THEN <<>> ELSE <<Head(zip_file_contents)>>)
             \o ErroneousPaths(Tail(zip_file_contents))

\* The check stopping at the first path that is no file.
FirstErroneousPath(zip_file_contents) ==
    LET all == ErroneousPaths(zip_file_contents)
    IN  IF all = <<>> THEN <<>> ELSE <<Head(all)>>

\* The paths _check_paths_for_zip_contents names in its second ValueError.
PathsReported(zip_file_contents) == ErroneousPaths(zip_file_contents)

\* _check_paths_for_zip_contents(r): what it raises, and the paths it names.
CheckPathsForZipContents(r) ==
    IF r.zip_file_contents = <<>>
    THEN [raised |-> "ValueError",
          message |-> "No paths are specified",
          erroneous_paths |-> <<>>]
    ELSE IF PathsReported(r.zip_file_contents) # <<>>
    THEN [raised |-> "ValueError",
          message |-> "Cannot add the specificed files to a zip file",
          erroneous_paths |-> PathsReported(r.zip_file_contents)]
    ELSE [raised |-> "", message |-> "", erroneous_paths |-> <<>>]

\* The archive names with the directories kept: zip_file.write(fpath).
ArcNamesFullPath(zip_file_contents) == zip_file_contents

\* The archive names zip_file.write(fpath, os.path.basename(fpath)) adds,
\* one for each path in the order of the list.
ArcNames(zip_file_contents) ==
    [i \in 1..Len(zip_file_contents) |-> Basename(zip_file_contents[i])]

\* os.path.join(recipe.export_path, recipe.core_file_name + ".zip")
ZipPath(r) == Join(r.export_path, r.core_file_name \o ZipExt)

ZipExportedFiles ==
    LET check == CheckPathsForZipContents(recipe)
    IN  /\ IF check.raised # ""
           THEN /\ result' = [op |-> "zip_exported_files"] @@ check
                /\ fs' = fs
           ELSE IF ~IsDir(recipe.export_path) \/ IsDir(ZipPath(recipe))
           THEN \* ZipFile(zip_fpath, 'w') cannot create the file
                /\ result' = [op |-> "zip_exported_files", raised |-> "OSError",
                              message |-> "", erroneous_paths |-> <<>>]
                /\ fs' = fs
           ELSE /\ result' = [op |-> "zip_exported_files"] @@ check
                /\ fs' = [p \in DOMAIN fs \cup {ZipPath(recipe)} |->
                            IF p = ZipPath(recipe)
                            THEN [kind |-> "file", data |-> ArcNames(recipe.zip_file_contents)]
                            ELSE fs[p]]
        /\ UNCHANGED <<recipe, args, layers, recipes, procs>>

(***************************************************************************)
(* Packaging on its own: zip_exported_files on a recipe whose export       *)
(* directory _create_export_dir has made, with any list of at most MaxZip  *)
(* artifact paths, each of them a file, a directory or absent.             *)
(***************************************************************************)
\* The longest recipe.zip_file_contents.
MaxZip == 3

ExportRoot == <<"/", "x">>

\* os.path.join(self.cmf.export_dir, recipe.mapnumber, "v" + str(version_num).zfill(2))
ExportDirectory(mapnumber, version_num) ==
    Join(Join(ExportRoot, mapnumber), <<"v">> \o ZFill2(version_num))

Elsewhere == <<"/", "o">>

\* The artifacts a recipe may list: a.j and b.j of the export directory,
\* a.j of another directory, and that directory itself.
ArtifactFiles ==
    { Join(ExportDirectory(<<"M", "1">>, 1), <<"a", ".", "j">>),
      Join(ExportDirectory(<<"M", "1">>, 1), <<"b", ".", "j">>),
      Join(Elsewhere, <<"a", ".", "j">>) }

ExportedRecipe ==
    [NewRecipe EXCEPT !.version_num = 1,
                      !.core_file_name = CoreFileName(<<"M", "1">>, 1, <<"a">>),
                      !.export_path = ExportDirectory(<<"M", "1">>, 1)]

InitZip ==
    /\ \E present \in SUBSET (ArtifactFiles \cup {ZipPath(ExportedRecipe)}) :
          fs = [p \in {ExportRoot, Join(ExportRoot, <<"M", "1">>),
                       ExportDirectory(<<"M", "1">>, 1), Elsewhere} \cup present |->
                   IF p \in present THEN EmptyFile ELSE Directory]
    /\ \E n \in 0..MaxZip : \E zip_file_contents \in [1..n -> ArtifactFiles \cup {Elsewhere}] :
          recipe = [ExportedRecipe EXCEPT !.zip_file_contents = zip_file_contents]
    /\ args = None
    /\ result = NoResult
    /\ layers = <<>> /\ recipes = <<>> /\ procs = <<>>

NextZip == ZipExportedFiles

SpecZip == InitZip /\ [][NextZip]_vars

NotFiles(zip_file_contents) ==
    {i \in 1..Len(zip_file_contents) : ~IsFile(zip_file_contents[i])}

\* C8: zip_exported_files fails with the No-paths-are-specified error on
\* an empty list, and otherwise, when a listed path is no regular file, with
\* one error naming every such path; in both cases the file system is left
\* as it was (the archive is not opened for writing).
C8_PackagingPreconditions ==
    [][result'.op = "zip_exported_files" =>
          /\ recipe.zip_file_contents = <<>> =>
                /\ result'.raised = "ValueError"
                /\ result'.message = "No paths are specified"
                /\ fs' = fs
          /\ NotFiles(recipe.zip_file_contents) # {} =>
                /\ result'.raised = "ValueError"
                /\ result'.message = "Cannot add the specificed files to a zip file"
                /\ \A i \in NotFiles(recipe.zip_file_contents) :
                       recipe.zip_file_contents[i] \in Range(result'.erroneous_paths)
                /\ \A q \in Range(result'.erroneous_paths) :
                       \E i \in NotFiles(recipe.zip_file_contents) :
                           recipe.zip_file_contents[i] = q
                /\ fs' = fs]_vars

\* Packaging failed naming two different paths, and an old archive of the
\* export directory is still there.
C8_Witness ==
    /\ result.op = "zip_exported_files"
    /\ result.raised = "ValueError"
    /\ Len(result.erroneous_paths) >= 2
    /\ result.erroneous_paths[1] # result.erroneous_paths[2]
    /\ \E i \in 1..Len(recipe.zip_file_contents) : IsFile(recipe.zip_file_contents[i])
    /\ IsFile(ZipPath(recipe))
    /\ fs[ZipPath(recipe)].data = <<>>

\* C9: when every listed path is a regular file, zip_exported_files writes
\* <export_path>/<core_file_name>.zip with one entry for each listed path, in
\* the order of the list, named by the path's last component.
C9_ArchiveHoldsBaseNamesInOrder ==
    [][(result'.op = "zip_exported_files" /\ recipe.zip_file_contents # <<>>
            /\ NotFiles(recipe.zip_file_contents) = {}) =>
          LET zip == Join(recipe.export_path, recipe.core_file_name \o <<".", "z", "p">>)
              contents == recipe.zip_file_contents
          IN  /\ result'.raised = ""
              /\ zip \in DOMAIN fs'
              /\ fs'[zip].kind = "file"
              /\ Len(fs'[zip].data) = Len(contents)
              /\ \A i \in 1..Len(contents) :
                    LET entry == fs'[zip].data[i]
                    IN  /\ \A k \in 1..Len(entry) : entry[k] # "/"
                        /\ contents[i] = Dirname(contents[i]) \o <<"/">> \o entry
              /\ \A p \in DOMAIN fs : p # zip => p \in DOMAIN fs' /\ fs'[p] = fs[p]]_vars

\* An archive was written with two entries of the same name, for files of
\* two directories.
C9_Witness ==
    /\ result.op = "zip_exported_files"
    /\ result.raised = ""
    /\ Len(recipe.zip_file_contents) = 3
    /\ Dirname(recipe.zip_file_contents[1]) # Dirname(recipe.zip_file_contents[2])
    /\ IsFile(ZipPath(recipe))
    /\ fs[ZipPath(recipe)].data = <<<<"a", ".", "j">>, <<"a", ".", "j">>, <<"b", ".", "j">>>>

(***************************************************************************)
(* recipe_layer.py: RecipeLayer                                            *)
(***************************************************************************)
\* hashlib.md5(data).hexdigest(), as an ideal hash: the digest names the
\* bytes hashed, so two digests are equal exactly when the bytes are.
Md5(bytes) == <<"md5", bytes>>

\* sorted(paths) / list.sort(): insertion into the sorted rest.
RECURSIVE InsertSorted(_, _)
InsertSorted(p, sorted) ==
    IF sorted = <<>> THEN <<p>>
    ELSE IF StrLess(p, Head(sorted)) THEN <<p>> \o sorted
    ELSE <<Head(sorted)>> \o InsertSorted(p, Tail(sorted))

RECURSIVE Sorted(_)
Sorted(paths) ==
    IF paths = <<>> THEN <<>> ELSE InsertSorted(Head(paths), Sorted(Tail(paths)))

\* glob.glob('{}*'.format(base_path)): the entries of base_path's directory
\* whose name starts with base_path's last component.
GlobPrefix(base_path) ==
    {p \in DOMAIN fs : /\ Dirname(p) = Dirname(base_path)
                       /\ StartsWith(Basename(p), Basename(base_path))}

LockExt == <<".", "l", "o", "c", "k">>

\* The lists glob.glob('{}*'.format(base_path)) may return for
\* data_source_path: the matching entries in any order ("in arbitrary
\* order", as the file system enumerates them).
Glob(data_source_path) ==
    IF data_source_path = None THEN {<<>>}
    ELSE Orderings(GlobPrefix(SplitExtRoot(data_source_path)))

\* files_in_shp_file(), given the list glob returned.
FilesInShpFile(files) ==
    LET Kept(f_path) == IsFile(f_path) /\ ~EndsWith(f_path, LockExt)
    IN  SelectSeq(files, Kept)

\* f_list in the order the files are hashed in, without f_list.sort().
FListAsEnumerated(f_list) == f_list

\* f_list.sort()
SortFList(f_list) == Sorted(f_list)

\* The bytes hash.update() is fed, file after file.
RECURSIVE ReadAll(_)
ReadAll(f_list) ==
    IF f_list = <<>> THEN <<>> ELSE fs[Head(f_list)].data \o ReadAll(Tail(f_list))

\* _calc_data_source_checksum().  For a directory files_in_dir() joins the
\* directory path with the list of file names os.walk yields, and
\* os.path.join raises TypeError.
\* files: what glob.glob returns if it is called.
CalcDataSourceChecksum(data_source_path, files) ==
    IF data_source_path # None /\ ~IsFile(data_source_path) /\ IsDir(data_source_path)
    THEN [raised |-> "TypeError", value |-> None]
    ELSE LET f_list == IF data_source_path # None /\ IsFile(data_source_path)
                       THEN FilesInShpFile(files)
                       ELSE <<>>
         IN  [raised |-> "", value |-> Md5(ReadAll(SortFList(f_list)))]

\* _calc_layer_file_checksum() with the open() inside no isfile() test.
CalcLayerFileChecksumUntested(layer_file_path) ==
    IF IsFile(layer_file_path)
    THEN [raised |-> "", value |-> Md5(fs[layer_file_path].data)]
    ELSE [raised |-> "IOError", value |-> None]

\* _calc_layer_file_checksum()
CalcLayerFileChecksum(layer_file_path) ==
    [raised |-> "",
     value |-> Md5(IF IsFile(layer_file_path) THEN fs[layer_file_path].data ELSE <<>>)]

\* RecipeLayer.__init__ for a layer definition without the optional fields:
\* the attributes of the new object (crs is set by calc_extent only).
NewRecipeLayer(layer_def) ==
    [name |-> layer_def.name,
     reg_exp |-> layer_def.reg_exp,
     data_source_path |-> None,
     data_source_checksum |-> CalcDataSourceChecksum(None, <<>>).value,
     data_name |-> None,
     extent |-> None,
     crs |-> None]

\* recipe.all_layers()
AllLayers(state) == recipes[state]

\* RecipeLayer.__eq__: self.__dict__ == other.__dict__
LayerEq(self, other) == layers[self] = layers[other]

\* self in recipe.all_layers(): Python's in finds an element that is the
\* object or that compares equal to it.
LyrIsInRecipe(self, state) ==
    \E i \in 1..Len(AllLayers(state)) :
        AllLayers(state)[i] = self \/ LayerEq(AllLayers(state)[i], self)

NotPartOfTheRecipe == "Attempting to update a layer which is not part of the recipe"

DataNotFoundForSchema == "Cannot check data schema until relevant data has been found."

DataNotFoundForExtent == "Cannot calculate bounding box until relevant data has been found."

\* [(f_path, os.path.splitext(f_name)[0]) for f_path, f_name in all_gis_files
\*      if re.match(self.reg_exp, f_name, re.IGNORECASE)]
RECURSIVE FoundFiles(_, _)
FoundFiles(reg_exp, all_gis_files) ==
    IF all_gis_files = <<>> THEN <<>>
    ELSE LET f == Head(all_gis_files)
             rest == FoundFiles(reg_exp, Tail(all_gis_files))
         IN  IF ReMatchIgnoreCase(reg_exp, f.f_name)
             THEN <<[f_path |-> f.f_path, data_name |-> SplitExtRoot(f.f_name)]>> \o rest
             ELSE rest

\* The conflicting paths as a FixMultipleMatchingFilesTask is given them.
DatasourcesListAsFound(found_datasources) == found_datasources

\* FixMultipleMatchingFilesTask's context_data['datasources_list']
DatasourcesList(found_datasources) == Sorted(found_datasources)

\* _check_found_files: the task of the ValueError raised, "" when none is.
CheckFoundFiles(found_files) ==
    IF found_files = <<>>
    THEN [task |-> "FixMissingGISDataTask", datasources_list |-> <<>>]
    ELSE IF Len(found_files) > 1
    THEN [task |-> "FixMultipleMatchingFilesTask",
          datasources_list |->
              DatasourcesList([i \in 1..Len(found_files) |-> found_files[i].f_path])]
    ELSE [task |-> "", datasources_list |-> <<>>]

LayerResult(op, self, state, all_gis_files, raised, message, check) ==
    [op |-> op, lyr |-> self, state |-> state, all_gis_files |-> all_gis_files,
     raised |-> raised, message |-> message,
     task |-> check.task, datasources_list |-> check.datasources_list]

NoTask == [task |-> "", datasources_list |-> <<>>]

\* The layer's checksum after a resolution that trusts the one it holds.
ChecksumKept(lyr, checksum) == lyr.data_source_checksum

\* self.data_source_checksum = self._calc_data_source_checksum()
ChecksumRecomputed(lyr, checksum) == checksum

\* The _data_finder get_data_finder(cmf, all_gis_files) returns, called with
\* state = the recipe.
DataFinder(self, state, all_gis_files) ==
    LET found_files == FoundFiles(layers[self].reg_exp, all_gis_files)
        check == CheckFoundFiles(found_files)
        found == found_files[Len(found_files)]
        Res(raised, message, c) ==
            LayerResult("_data_finder", self, state, all_gis_files, raised, message, c)
    IN  /\ IF ~LyrIsInRecipe(self, state)
           THEN /\ result' = Res("ValueError", NotPartOfTheRecipe, NoTask)
                /\ layers' = layers
           ELSE IF check.task # ""
           THEN /\ result' = Res("ValueError", "", check)
                /\ layers' = layers
           ELSE \E files \in Glob(found.f_path) :
                   LET checksum == CalcDataSourceChecksum(found.f_path, files)
                   IN  IF checksum.raised # ""
                       THEN /\ result' = Res(checksum.raised, "", NoTask)
                            /\ layers' = [layers EXCEPT
                                              ![self].data_source_path = found.f_path,
                                              ![self].data_name = found.data_name]
                       ELSE /\ result' = Res("", "", NoTask)
                            /\ layers' = [layers EXCEPT
                                              ![self].data_source_path = found.f_path,
                                              ![self].data_name = found.data_name,
                                              ![self].data_source_checksum =
                                                  ChecksumRecomputed(layers[self], checksum.value)]
        /\ UNCHANGED <<fs, recipe, args, recipes, procs>>

\* A layer that claims to be resolved whatever it holds.
NeverUnresolved(lyr) == FALSE

\* not self.data_source_path
Unresolved(lyr) == lyr.data_source_path = None

\* checker_data_against_schema(state=recipe); conforms: whether the dataset
\* geopandas reads validates against self.data_schema.
CheckerDataAgainstSchema(self, state, conforms) ==
    LET Res(raised, message) ==
            LayerResult("checker_data_against_schema", self, state, <<>>, raised, message, NoTask)
    IN  /\ result' = IF Unresolved(layers[self])
                     THEN Res("ValueError", DataNotFoundForSchema)
                     ELSE IF ~LyrIsInRecipe(self, state)
                     THEN Res("ValueError", NotPartOfTheRecipe)
                     ELSE IF ~conforms
                     THEN Res("ValueError", "jsve.message")
                     ELSE Res("", "")
        /\ UNCHANGED <<fs, recipe, args, layers, recipes, procs>>

Crs == <<"e", "p", "s", "g", ":", "4", "3", "2", "6">>

\* calc_extent(state=recipe); bounds: the sf.bounds of the dataset fiona
\* opens.
CalcExtent(self, state, bounds) ==
    LET Res(raised, message) ==
            LayerResult("calc_extent", self, state, <<>>, raised, message, NoTask)
    IN  /\ IF Unresolved(layers[self])
           THEN /\ result' = Res("ValueError", DataNotFoundForExtent)
                /\ layers' = layers
           ELSE IF ~LyrIsInRecipe(self, state)
           THEN /\ result' = Res("ValueError", NotPartOfTheRecipe)
                /\ layers' = layers
           ELSE /\ result' = Res("", "")
                /\ layers' = [layers EXCEPT ![self].extent = bounds, ![self].crs = Crs]
        /\ UNCHANGED <<fs, recipe, args, recipes, procs>>

(***************************************************************************)
(* Layer resolution on its own: two recipes, each with a layer of its own  *)
(* (built from the same layer definition or from two), an active-data      *)
(* directory, and the three operations called on any layer with any recipe *)
(* and any list of at most MaxGisFiles files.                              *)
(***************************************************************************)
\* The longest all_gis_files.
MaxGisFiles == 2

ActiveData == <<"/", "d">>

LayerDefs ==
    { [name |-> <<"a">>, reg_exp |-> <<"a">>],
      [name |-> <<"b">>, reg_exp |-> <<"b", ".">>] }

\* The data sets get_all_gisfiles(cmf) may list: a file and a directory (a
\* file geodatabase) whose names differ in case and extension, and a file
\* whose name holds theirs after its first letter.
GisFiles ==
    { Join(ActiveData, <<"A", ".", "t">>),
      Join(ActiveData, <<"a", ".", "b">>),
      Join(ActiveData, <<"b", "a", ".", "s">>) }

GisDirectories == {Join(ActiveData, <<"a", ".", "b">>)}

\* The other file of a two-file data set, and a lock file.
SiblingFiles ==
    { Join(ActiveData, <<"b", "a", ".", "x">>),
      Join(ActiveData, <<"b", "a", ".", "s">> \o LockExt) }

\* Every file holds one byte, its own.
FileByte(p) ==
    CASE p = Join(ActiveData, <<"A", ".", "t">>) -> 1
      [] p = Join(ActiveData, <<"b", "a", ".", "s">>) -> 2
      [] p = Join(ActiveData, <<"b", "a", ".", "x">>) -> 3
      [] OTHER -> 4

\* (f_path, os.path.basename(f_path)) for the paths listed
GisFileList(paths) ==
    [i \in 1..Len(paths) |-> [f_path |-> paths[i], f_name |-> Basename(paths[i])]]

AllGisFileLists ==
    UNION {{GisFileList(paths) : paths \in Orderings(S)} :
              S \in {T \in SUBSET GisFiles : Cardinality(T) <= MaxGisFiles}}

LayerExtents == {<<35, 33, 36, 34>>}

LayerIds == {"L1", "L2"}

RecipeIds == {"A", "B"}

InitResolve ==
    /\ fs = [p \in {ActiveData} \cup GisFiles \cup SiblingFiles |->
                IF p \in {ActiveData} \cup GisDirectories THEN Directory
                ELSE [kind |-> "file", data |-> <<FileByte(p)>>]]
    /\ recipe = None
    /\ args = None
    /\ result = NoResult
    /\ \E def1 \in {d \in LayerDefs : d.name = <<"a">>}, def2 \in LayerDefs :
          layers = [l \in LayerIds |-> NewRecipeLayer(IF l = "L1" THEN def1 ELSE def2)]
    /\ recipes = [r \in RecipeIds |-> IF r = "A" THEN <<"L1">> ELSE <<"L2">>]
    /\ procs = <<>>

NextResolve ==
    \E self \in LayerIds, state \in RecipeIds :
        \/ \E all_gis_files \in AllGisFileLists : DataFinder(self, state, all_gis_files)
        \/ \E conforms \in BOOLEAN : CheckerDataAgainstSchema(self, state, conforms)
        \/ \E bounds \in LayerExtents : CalcExtent(self, state, bounds)

SpecResolve == InitResolve /\ [][NextResolve]_vars

\* The entries of all_gis_files whose file name the layer's reg_exp matches.
Matching(lyr, all_gis_files) ==
    {i \in 1..Len(all_gis_files) :
        ReMatchIgnoreCase(layers[lyr].reg_exp, Basename(all_gis_files[i].f_path))}

\* C2: a _data_finder call that passes the membership check fails with the
\* missing-data task when no listed file name matches reg_exp, fails with
\* the multiple-matching-files task carrying exactly the matching paths in
\* sorted order when two or more match, and with exactly one match leaves
\* the layer with data_source_path = the match's full path and data_name =
\* its file name without the extension.
C2_ResolutionByMatchCount ==
    (result.op = "_data_finder" /\ result.message # NotPartOfTheRecipe) =>
        LET files == result.all_gis_files
            matching == Matching(result.lyr, files)
            listed == result.datasources_list
        IN  /\ matching = {} =>
                  result.raised = "ValueError" /\ result.task = "FixMissingGISDataTask"
            /\ Cardinality(matching) >= 2 =>
                  /\ result.raised = "ValueError"
                  /\ result.task = "FixMultipleMatchingFilesTask"
                  /\ Len(listed) = Cardinality(matching)
                  /\ Range(listed) = {files[i].f_path : i \in matching}
                  /\ \A i, j \in 1..Len(listed) : i < j => StrLess(listed[i], listed[j])
            /\ \A i \in matching : matching = {i} =>
                  /\ result.task = ""
                  /\ layers[result.lyr].data_source_path = files[i].f_path
                  /\ layers[result.lyr].data_name \o SplitExtExt(files[i].f_path)
                        = Basename(files[i].f_path)

\* A layer was bound to the one file of two listed that its reg_exp matches,
\* a match that differs in case.
C2_Witness ==
    /\ result.op = "_data_finder"
    /\ result.raised = ""
    /\ Len(result.all_gis_files) = 2
    /\ layers[result.lyr].reg_exp = <<"a">>
    /\ layers[result.lyr].data_source_path = Join(ActiveData, <<"A", ".", "t">>)
    /\ layers[result.lyr].data_name = <<"A">>

\* The recipe's layers include this very object.
HoldsInstance(state, lyr) == \E i \in 1..Len(recipes[state]) : recipes[state][i] = lyr

\* C3: _data_finder, checker_data_against_schema and calc_extent, called on
\* a layer with a recipe whose layers do not include that object, fail with
\* the not-part-of-the-recipe error and leave every field of every layer as
\* it was; called with the recipe that holds the layer they do not fail
\* with that error.
C3_ForeignLayerFailsBeforeMutation ==
    [][result'.op \in {"_data_finder", "checker_data_against_schema", "calc_extent"} =>
          IF HoldsInstance(result'.state, result'.lyr)
          THEN result'.message # NotPartOfTheRecipe
          ELSE /\ result'.raised = "ValueError"
               /\ result'.message = NotPartOfTheRecipe
               /\ layers' = layers]_vars


\* C17: checker_data_against_schema and calc_extent called on a layer whose
\* data_source_path is null fail with the data-not-found error of the
\* operation, whatever the recipe and the dataset, and leave every field of
\* every layer (the extent among them) as it was.
C17_UnresolvedLayerFails ==
    [][(/\ result'.op \in {"checker_data_against_schema", "calc_extent"}
        /\ layers[result'.lyr].data_source_path = None) =>
          /\ result'.raised = "ValueError"
          /\ result'.message = IF result'.op = "calc_extent"
                               THEN DataNotFoundForExtent ELSE DataNotFoundForSchema
          /\ layers' = layers]_vars

\* calc_extent failed so on an unresolved layer called with the recipe that
\* holds it, another layer being resolved.
C17_Witness ==
    /\ result.op = "calc_extent"
    /\ result.message = DataNotFoundForExtent
    /\ HoldsInstance(result.state, result.lyr)
    /\ layers[result.lyr].data_source_path = None
    /\ layers[result.lyr].extent = None
    /\ \E l \in LayerIds : layers[l].data_source_path # None

(***************************************************************************)
(* plugin_base.py: _create_export_dir, run by several processes on the     *)
(* same crash move folder.  Each system call (stat, mkdir) is one step.    *)
(***************************************************************************)
\* The errno of mkdir(path), "" when it makes the directory.
MkdirErrno(path) ==
    IF ~Exists(Dirname(path)) THEN "ENOENT"
    ELSE IF ~IsDir(Dirname(path)) THEN "ENOTDIR"
    ELSE IF Exists(path) THEN "EEXIST"
    ELSE ""

\* The file system after mkdir(path).
Mkdir(path) ==
    IF MkdirErrno(path) # "" THEN fs
    ELSE [p \in DOMAIN fs \cup {path} |-> IF p = path THEN Directory ELSE fs[p]]

\* An except clause that lets no OSError pass.
NeverTolerated(errno, isdir) == FALSE

\* exc.errno == errno.EEXIST and os.path.isdir(export_directory)
Tolerated(errno, isdir) == errno = "EEXIST" /\ isdir

\* A process outside _create_export_dir, with its recipe.
IdleProcess(r) == [pc |-> "idle", recipe |-> r, head_exists |-> FALSE, errno |-> ""]

\* The call, up to os.makedirs: recipe.export_path is set.
CreateExportDir(p) ==
    /\ procs[p].pc \in {"idle", "returned", "raised"}
    /\ LET r == procs[p].recipe
           export_directory == ExportDirectory(r.mapnumber, r.version_num)
       IN  procs' = [procs EXCEPT ![p] =
                        [IdleProcess([r EXCEPT !.export_path = export_directory])
                            EXCEPT !.pc = "makedirs"]]
    /\ UNCHANGED <<fs, recipe, args, result, layers, recipes>>

\* os.makedirs: path.exists(head)
MakedirsExistsHead(p) ==
    /\ procs[p].pc = "makedirs"
    /\ LET head == Dirname(procs[p].recipe.export_path)
       IN  procs' = [procs EXCEPT ![p].head_exists = Exists(head),
                                  ![p].pc = IF Exists(head) THEN "mkdir" ELSE "mkdir_head"]
    /\ UNCHANGED <<fs, recipe, args, result, layers, recipes>>

\* os.makedirs: makedirs(head), whose own head (the export root) exists; a
\* FileExistsError is passed over, any other OSError leaves makedirs.
MakedirsMkdirHead(p) ==
    /\ procs[p].pc = "mkdir_head"
    /\ LET head == Dirname(procs[p].recipe.export_path)
           errno == MkdirErrno(head)
       IN  /\ fs' = Mkdir(head)
           /\ procs' = IF errno \in {"", "EEXIST"}
                       THEN [procs EXCEPT ![p].pc = "mkdir"]
                       ELSE [procs EXCEPT ![p].pc = "except", ![p].errno = errno]
    /\ UNCHANGED <<recipe, args, result, layers, recipes>>

\* os.makedirs: mkdir(name)
MakedirsMkdir(p) ==
    /\ procs[p].pc = "mkdir"
    /\ LET name == procs[p].recipe.export_path
           errno == MkdirErrno(name)
       IN  /\ fs' = Mkdir(name)
           /\ procs' = IF errno = ""
                       THEN [procs EXCEPT ![p].pc = "returned"]
                       ELSE [procs EXCEPT ![p].pc = "except", ![p].errno = errno]
    /\ UNCHANGED <<recipe, args, result, layers, recipes>>

\* except OSError as exc: pass or raise
ExceptOSError(p) ==
    /\ procs[p].pc = "except"
    /\ procs' = [procs EXCEPT ![p].pc =
                    IF Tolerated(procs[p].errno, IsDir(procs[p].recipe.export_path))
                    THEN "returned" ELSE "raised"]
    /\ UNCHANGED <<fs, recipe, args, result, layers, recipes>>

(***************************************************************************)
(* NumProcs processes exporting the same map number and version, each      *)
(* calling _create_export_dir any number of times; the map number's        *)
(* directory and the version's directory are absent, a directory or a      *)
(* file at the start.                                                      *)
(***************************************************************************)
NumProcs == 2

UnexportedRecipe == [NewRecipe EXCEPT !.version_num = 1]

ExportFileSystems ==
    LET head == Join(ExportRoot, UnexportedRecipe.mapnumber)
        name == ExportDirectory(UnexportedRecipe.mapnumber, UnexportedRecipe.version_num)
        root == (ExportRoot :> Directory)
    IN  { root,
          root @@ (head :> EmptyFile),
          root @@ (head :> Directory),
          root @@ (head :> Directory) @@ (name :> EmptyFile),
          root @@ (head :> Directory) @@ (name :> Directory) }

InitExportDir ==
    /\ fs \in ExportFileSystems
    /\ recipe = None
    /\ args = None
    /\ result = NoResult
    /\ layers = <<>>
    /\ recipes = <<>>
    /\ procs = [p \in 1..NumProcs |-> IdleProcess(UnexportedRecipe)]

NextExportDir ==
    \E p \in 1..NumProcs :
        \/ CreateExportDir(p)
        \/ MakedirsExistsHead(p)
        \/ MakedirsMkdirHead(p)
        \/ MakedirsMkdir(p)
        \/ ExceptOSError(p)

SpecExportDir == InitExportDir /\ [][NextExportDir]_vars

\* C10: however the processes' steps interleave and however often each
\* calls _create_export_dir, a call raises only while the export directory
\* is not a directory (it, or the map number's directory, is a file), a call
\* returns only once the export directory is a directory, and every call
\* that has ended, either way, has set recipe.export_path to
\* <export_root>/<mapnumber>/v<NN>.
C10_CreateExportDirToleratesExisting ==
    \A p \in DOMAIN procs :
        LET r == procs[p].recipe
            export_directory ==
                Join(Join(ExportRoot, r.mapnumber), <<"v">> \o ZFill2(r.version_num))
        IN  /\ procs[p].pc = "raised" =>
                  /\ ~IsDir(export_directory)
                  /\ IsFile(export_directory) \/ IsFile(Dirname(export_directory))
            /\ procs[p].pc = "returned" => IsDir(export_directory)
            /\ procs[p].pc \in {"raised", "returned"} => r.export_path = export_directory

\* Two processes both found the map number's directory missing; one made
\* the export directory, the other's mkdir failed with EEXIST, and both
\* calls returned.
C10_Witness ==
    \E p, q \in DOMAIN procs :
        /\ procs[p].pc = "returned" /\ ~procs[p].head_exists /\ procs[p].errno = ""
        /\ procs[q].pc = "returned" /\ ~procs[q].head_exists /\ procs[q].errno = "EEXIST"

(***************************************************************************)
(* plugin_base.py: create_ouput_map_project, run by several processes on   *)
(* the same crash move folder.  Each system call (stat, mkdir, the         *)
(* directory listing of glob, the copy) is one step.                       *)
(***************************************************************************)
\* A process outside create_ouput_map_project, with its recipe; called_with
\* keeps kwargs['state'] as the call received it.
IdleProjectProcess(r) ==
    [pc |-> "idle", recipe |-> r, called_with |-> r, raised |-> "", errno |-> "",
     overwrote |-> FALSE]

\* os.path.join(self.cmf.map_projects, recipe.mapnumber)
OutputDirOf(r) == Join(MapProjects, r.mapnumber)

\* The project files of the recipe's product in the output directory.
ProjectFilesOf(r) == GlobVersionedFiles(OutputDirOf(r), r.mapnumber, r.product)

\* The call: recipe = kwargs['state']
CreateOuputMapProject(p) ==
    /\ procs[p].pc \in {"idle", "returned", "raised"}
    /\ Cardinality(ProjectFilesOf(procs[p].recipe)) < MaxProjectFiles
    /\ procs' = [procs EXCEPT ![p] = [IdleProjectProcess(procs[p].recipe) EXCEPT !.pc = "isdir"]]
    /\ UNCHANGED <<fs, recipe, args, result, layers, recipes>>

\* if not(os.path.isdir(output_dir)):
IsDirOutputDir(p) ==
    /\ procs[p].pc = "isdir"
    /\ procs' = [procs EXCEPT ![p].pc =
                    IF IsDir(OutputDirOf(procs[p].recipe)) THEN "glob" ELSE "mkdir"]
    /\ UNCHANGED <<fs, recipe, args, result, layers, recipes>>

\* os.mkdir(output_dir): an OSError leaves create_ouput_map_project.
MkdirOutputDir(p) ==
    /\ procs[p].pc = "mkdir"
    /\ LET output_dir == OutputDirOf(procs[p].recipe)
           errno == MkdirErrno(output_dir)
       IN  /\ fs' = Mkdir(output_dir)
           /\ procs' = IF errno = ""
                       THEN [procs EXCEPT ![p].pc = "glob"]
                       ELSE [procs EXCEPT ![p].pc = "raised", ![p].raised = "OSError",
                                          ![p].errno = errno]
    /\ UNCHANGED <<recipe, args, result, layers, recipes>>

\* get_next_map_version_number and the three assignments to the recipe;
\* slugify(recipe.product) is the product for the products of the model.
SetVersionAndPath(p) ==
    /\ procs[p].pc = "glob"
    /\ LET r == procs[p].recipe
           output_map_base == r.product
       IN  \E files \in Orderings(ProjectFilesOf(r)) :
             LET version_num == NextMapVersionNumber(files, r.mapnumber, output_map_base)
                 core_file_name == CoreFileName(r.mapnumber, version_num, output_map_base)
             IN  procs' = [procs EXCEPT
                    ![p].pc = "copyfile",
                    ![p].recipe = [r EXCEPT
                        !.version_num = version_num,
                        !.core_file_name = core_file_name,
                        !.map_project_path =
                            Join(OutputDirOf(r), core_file_name \o ProjectFileExtension)]]
    /\ UNCHANGED <<fs, recipe, args, result, layers, recipes>>

\* The exception shutil.copyfile(src, dst) raises, "" when it copies.
CopyfileRaises(src, dst) ==
    IF src = None THEN "TypeError"
    ELSE IF ~IsFile(src) THEN "IOError"
    ELSE IF ~IsDir(Dirname(dst)) \/ IsDir(dst) THEN "IOError"
    ELSE ""

\* copyfile(recipe.template_path, recipe.map_project_path)
Copyfile(p) ==
    /\ procs[p].pc = "copyfile"
    /\ LET src == procs[p].recipe.template_path
           dst == procs[p].recipe.map_project_path
           raises == CopyfileRaises(src, dst)
       IN  IF raises # ""
           THEN /\ procs' = [procs EXCEPT ![p].pc = "raised", ![p].raised = raises]
                /\ fs' = fs
           ELSE /\ procs' = [procs EXCEPT ![p].pc = "returned",
                                          ![p].overwrote = Exists(dst)]
                /\ fs' = [q \in DOMAIN fs \cup {dst} |-> IF q = dst THEN fs[src] ELSE fs[q]]
    /\ UNCHANGED <<recipe, args, result, layers, recipes>>

(***************************************************************************)
(* NumProcs processes making projects of the same map number and product,  *)
(* each calling create_ouput_map_project while the output directory holds  *)
(* fewer than MaxProjectFiles project files; at the start the output       *)
(* directory is absent, or a directory with any such files in it.          *)
(***************************************************************************)
SelectedRecipe == [NewRecipe EXCEPT !.template_path = TemplatePath(1)]

ProjectFileSystems ==
    LET shared == (MapProjects :> Directory) @@ (MapTemplates :> Directory)
        template == (TemplatePath(1) :> [kind |-> "file", data |-> <<8>>])
    IN  {shared @@ t : t \in {template, <<>>}}
        \cup {shared @@ template @@ (OutputDirOf(SelectedRecipe) :> Directory)
                @@ [f \in present |-> EmptyFile] :
                    present \in {S \in SUBSET VersionedFiles : Cardinality(S) < MaxProjectFiles}}

InitProject ==
    /\ fs \in ProjectFileSystems
    /\ recipe = None
    /\ args = None
    /\ result = NoResult
    /\ layers = <<>>
    /\ recipes = <<>>
    /\ procs = [p \in 1..NumProcs |-> IdleProjectProcess(SelectedRecipe)]

NextProject ==
    \E p \in 1..NumProcs :
        \/ CreateOuputMapProject(p)
        \/ IsDirOutputDir(p)
        \/ MkdirOutputDir(p)
        \/ SetVersionAndPath(p)
        \/ Copyfile(p)

SpecProject == InitProject /\ [][NextProject]_vars

\* C11: no call of create_ouput_map_project fails with "already exists"
\* while the output directory is a directory, that is because another
\* process made the directory first.
C11_OutputDirCreationToleratesRace ==
    \A p \in DOMAIN procs :
        (procs[p].pc = "raised" /\ procs[p].errno = "EEXIST") =>
            ~IsDir(Join(MapProjects, procs[p].recipe.mapnumber))

\* The version number in the name of a project file of the recipe's product.
VersionInName(f, r) ==
    CHOOSE v \in 0..99 : f = Join(Join(MapProjects, r.mapnumber),
                                  r.mapnumber \o <<"-", "v">> \o ZFill2(v) \o <<"-">>
                                      \o r.product \o MxdExt)

\* C19: in a run where one process alone calls create_ouput_map_project
\* again and again and nothing is deleted, every call that returns has
\* recorded a version_num greater than the version of every project file of
\* the map number and product that was in the output directory, and has
\* copied the template to a path where no file was.
C19_VersionsIncrease ==
    [][\A p \in DOMAIN procs :
          (/\ procs[p].pc = "copyfile"
           /\ procs'[p].pc = "returned"
           /\ \A q \in DOMAIN procs \ {p} : procs[q].pc = "idle") =>
              /\ \A f \in ProjectFilesOf(procs[p].recipe) :
                    procs'[p].recipe.version_num > VersionInName(f, procs[p].recipe)
              /\ ~Exists(procs'[p].recipe.map_project_path)]_vars

\* C21: when the copy of the template fails, the recipe's version_num,
\* core_file_name and map_project_path are those the call received, and
\* get_templates on the recipe does not fail with "Unable to locate map
\* project file".
C21_FailedCopyLeavesRecipe ==
    \A p \in DOMAIN procs :
        (procs[p].pc = "raised" /\ procs[p].raised \in {"IOError", "TypeError"}) =>
            /\ procs[p].recipe.version_num = procs[p].called_with.version_num
            /\ procs[p].recipe.core_file_name = procs[p].called_with.core_file_name
            /\ procs[p].recipe.map_project_path = procs[p].called_with.map_project_path
            /\ GetTemplatesOutcome(procs[p].recipe, <<>>).message
                  # "Unable to locate map project file"

(***************************************************************************)
(* crash_move_folder.py: CrashMoveFolder                                   *)
(***************************************************************************)
Reference == <<"r", "e", "f", "e", "r", "e", "n", "c", "e">>

Orientations ==
    << <<"l", "a", "n", "d", "s", "c", "a", "p", "e">>,
       <<"p", "o", "r", "t", "r", "a", "i", "t">> >>

\* os.path.join(self.mxd_templates, ): join of one path is that path.
JoinOne(path) == path

\* The body of the loops of verify_mxds for one category and orientation:
\* result after it.  templateFileName is built and not used.
VerifyMxd(cmf, category, orientation, result_so_far) ==
    LET name1 == cmf.arcgis_version \o <<"_">> \o category \o <<"_">> \o orientation
        name2 == IF category = Reference
                 THEN name1 \o <<"_", "b", "o", "t", "t", "o", "m">> ELSE name1
        templateFileName == name2 \o MxdExt
    IN  IF ~Exists(JoinOne(cmf.mxd_templates)) THEN FALSE ELSE result_so_far

\* for orientation in ['landscape', 'portrait']
RECURSIVE VerifyOrientations(_, _, _, _)
VerifyOrientations(cmf, category, orientations, result_so_far) ==
    IF orientations = <<>> THEN result_so_far
    ELSE VerifyOrientations(cmf, category, Tail(orientations),
                            VerifyMxd(cmf, category, Head(orientations), result_so_far))

\* for category in (self.categories)
RECURSIVE VerifyCategories(_, _, _)
VerifyCategories(cmf, categories, result_so_far) ==
    IF categories = <<>> THEN result_so_far
    ELSE VerifyCategories(cmf, Tail(categories),
                          VerifyOrientations(cmf, Head(categories), Orientations, result_so_far))

\* verify_mxds()
VerifyMxds(cmf) == VerifyCategories(cmf, cmf.categories, TRUE)

\* verify_paths(): all(results)
VerifyPaths(cmf) ==
    /\ IsDir(cmf.original_data)
    /\ IsDir(cmf.active_data)
    /\ IsDir(cmf.layer_rendering)
    /\ IsDir(cmf.mxd_templates)
    /\ IsDir(cmf.mxd_products)
    /\ IsDir(cmf.qgis_templates)
    /\ IsDir(cmf.export_dir)
    /\ Exists(cmf.dnc_definition)
    /\ Exists(cmf.layer_nc_definition)
    /\ Exists(cmf.mxd_nc_definition)
    /\ Exists(cmf.map_definitions)
    /\ Exists(cmf.layer_properties)
    /\ VerifyMxds(cmf)

\* CrashMoveFolder(cmf_path, verify_on_creation): the exception raised, for
\* a descriptor file that reads as cmf.
ConstructorRaises(cmf, verify_on_creation) ==
    IF verify_on_creation /\ ~VerifyPaths(cmf) THEN "ValueError" ELSE ""

CallVerifyMxds ==
    /\ result' = [op |-> "verify_mxds", raised |-> "", value |-> VerifyMxds(args),
                  verify_on_creation |-> FALSE]
    /\ UNCHANGED <<fs, recipe, args, layers, recipes, procs>>

CallVerifyPaths ==
    /\ result' = [op |-> "verify_paths", raised |-> "", value |-> VerifyPaths(args),
                  verify_on_creation |-> FALSE]
    /\ UNCHANGED <<fs, recipe, args, layers, recipes, procs>>

Construct ==
    \E verify_on_creation \in BOOLEAN :
        /\ result' = [op |-> "__init__", raised |-> ConstructorRaises(args, verify_on_creation),
                      value |-> FALSE, verify_on_creation |-> verify_on_creation]
        /\ UNCHANGED <<fs, recipe, args, layers, recipes, procs>>

(***************************************************************************)
(* Verification on its own: a crash move folder description with any list  *)
(* of the categories, any of the template files present, and at most       *)
(* MaxWrong of the twelve required paths absent or of the other kind.      *)
(***************************************************************************)
MaxWrong == 1

CmfPath == <<"/", "c">>

ArcgisVersion == <<"1", "0">>

OtherCategory == <<"o", "c", "h", "a">>

CategoryLists == {<<>>, <<Reference>>, <<OtherCategory>>, <<OtherCategory, Reference>>}

Cmf(categories) ==
    [path |-> CmfPath,
     original_data |-> Join(CmfPath, <<"o", "d">>),
     active_data |-> Join(CmfPath, <<"a", "d">>),
     layer_rendering |-> Join(CmfPath, <<"l", "r">>),
     mxd_templates |-> Join(CmfPath, <<"m", "t">>),
     mxd_products |-> Join(CmfPath, <<"m", "p">>),
     qgis_templates |-> Join(CmfPath, <<"q", "t">>),
     export_dir |-> Join(CmfPath, <<"e", "x">>),
     dnc_definition |-> Join(CmfPath, <<"d", "n">>),
     layer_nc_definition |-> Join(CmfPath, <<"l", "n">>),
     mxd_nc_definition |-> Join(CmfPath, <<"m", "n">>),
     map_definitions |-> Join(CmfPath, <<"m", "d">>),
     layer_properties |-> Join(CmfPath, <<"l", "p">>),
     arcgis_version |-> ArcgisVersion,
     categories |-> categories]

RequiredDirs(cmf) ==
    {cmf.original_data, cmf.active_data, cmf.layer_rendering, cmf.mxd_templates,
     cmf.mxd_products, cmf.qgis_templates, cmf.export_dir}

RequiredFiles(cmf) ==
    {cmf.dnc_definition, cmf.layer_nc_definition, cmf.mxd_nc_definition,
     cmf.map_definitions, cmf.layer_properties}

\* The template files a crash move folder may hold for the two categories.
TemplateFiles(cmf) ==
    {Join(cmf.mxd_templates,
          cmf.arcgis_version \o <<"_">> \o c \o <<"_">> \o Orientations[o]
              \o (IF c = Reference THEN <<"_", "b", "o", "t", "t", "o", "m">> ELSE <<>>)
              \o MxdExt) : c \in {Reference, OtherCategory}, o \in 1..2}

InitVerify ==
    /\ \E categories \in CategoryLists :
          args = Cmf(categories)
    /\ LET cmf == Cmf(<<>>)
           required == RequiredDirs(cmf) \cup RequiredFiles(cmf)
       IN  \E wrong \in {W \in SUBSET required : Cardinality(W) <= MaxWrong} :
           \E absent \in SUBSET wrong, templates \in SUBSET TemplateFiles(cmf) :
              LET KindOf(p) == IF (p \in RequiredDirs(cmf)) = (p \notin wrong)
                               THEN Directory ELSE EmptyFile
                  held == IF cmf.mxd_templates \notin wrong THEN templates ELSE {}
              IN  fs = [p \in {CmfPath} \cup (required \ absent) \cup held |->
                           IF p = CmfPath THEN Directory
                           ELSE IF p \in required THEN KindOf(p)
                           ELSE EmptyFile]
    /\ recipe = None
    /\ result = NoResult
    /\ layers = <<>> /\ recipes = <<>> /\ procs = <<>>

NextVerify == CallVerifyMxds \/ CallVerifyPaths \/ Construct

SpecVerify == InitVerify /\ [][NextVerify]_vars

\* The template files the naming convention asks for: one for every declared
\* category and orientation.
ExpectedTemplates(cmf) ==
    {Join(cmf.mxd_templates,
          cmf.arcgis_version \o <<"_">> \o cmf.categories[c] \o <<"_">> \o Orientations[o]
              \o (IF cmf.categories[c] = Reference
                  THEN <<"_", "b", "o", "t", "t", "o", "m">> ELSE <<>>)
              \o <<".", "m", "x", "d">>) : c \in 1..Len(cmf.categories), o \in 1..2}

\* C12: verify_mxds and verify_paths return True only if every expected
\* template file <version>_<category>_<orientation>[_bottom].mxd exists in
\* the templates directory.
C12_VerifyChecksEveryTemplate ==
    (result.op \in {"verify_mxds", "verify_paths"} /\ result.value) =>
        \A t \in ExpectedTemplates(args) : Exists(t)

\* C13: verify_paths returns False when one of the seven directories is no
\* directory or one of the five definition files is no file, and True when
\* all of them and all expected template files are there; the constructor
\* asked to verify raises ValueError exactly when verify_paths returns False.
C13_VerifyPathsContract ==
    LET dirs == {args.original_data, args.active_data, args.layer_rendering,
                 args.mxd_templates, args.mxd_products, args.qgis_templates,
                 args.export_dir}
        files == {args.dnc_definition, args.layer_nc_definition, args.mxd_nc_definition,
                  args.map_definitions, args.layer_properties}
        complete == (\A d \in dirs : IsDir(d)) /\ (\A f \in files : IsFile(f))
    IN  /\ result.op = "verify_paths" =>
              /\ ~complete => ~result.value
              /\ (complete /\ \A t \in ExpectedTemplates(args) : IsFile(t)) => result.value
        /\ (result.op = "__init__" /\ result.verify_on_creation) =>
              (result.raised = "ValueError" <=> ~VerifyPaths(args))

(***************************************************************************)
(* The checksums on their own: one layer in one recipe, a data directory   *)
(* whose files are rewritten between the calls, and the two checksum       *)
(* methods called on any path, with glob listing in any order.             *)
(***************************************************************************)
\* The largest byte a rewritten file holds.
MaxByte == 1

\* A file inside the directory data set.
FileInGisDirectory == Join(Join(ActiveData, <<"a", ".", "b">>), <<"g">>)

\* A path that names nothing on disk.
NoSuchFile == Join(ActiveData, <<"n", ".", "o">>)

\* The files whose content changes.
RewrittenFiles ==
    { Join(ActiveData, <<"b", "a", ".", "s">>),
      Join(ActiveData, <<"b", "a", ".", "x">>) }

FileContents == {<<>>} \cup {<<b>> : b \in 1..MaxByte}

\* The values self.data_source_path has when _calc_data_source_checksum is
\* called.
DataSourcePaths ==
    {None, NoSuchFile} \cup GisFiles \cup {Join(ActiveData, <<"b", "a", ".", "x">>)}

\* The values self.layer_file_path has when _calc_layer_file_checksum is
\* called.
LayerFilePaths == {NoSuchFile} \cup GisFiles \cup SiblingFiles

\* A digest a layer definition carries from an earlier run.
SuppliedChecksums == {Md5(<<0>>)}

\* RecipeLayer.__init__ for a layer definition with 'data_source_checksum'.
NewRecipeLayerWithChecksum(layer_def, data_source_checksum) ==
    [NewRecipeLayer(layer_def) EXCEPT !.data_source_checksum = data_source_checksum]

\* lyr._calc_data_source_checksum() with lyr.data_source_path set
CallCalcDataSourceChecksum ==
    /\ \E data_source_path \in DataSourcePaths :
       \E files \in Glob(data_source_path) :
          LET checksum == CalcDataSourceChecksum(data_source_path, files)
          IN  result' = [op |-> "_calc_data_source_checksum", raised |-> checksum.raised,
                         value |-> checksum.value, path |-> data_source_path,
                         files |-> files]
    /\ UNCHANGED <<fs, recipe, args, layers, recipes, procs>>

\* lyr._calc_layer_file_checksum() with lyr.layer_file_path set
CallCalcLayerFileChecksum ==
    /\ \E layer_file_path \in LayerFilePaths :
          LET checksum == CalcLayerFileChecksum(layer_file_path)
          IN  result' = [op |-> "_calc_layer_file_checksum", raised |-> checksum.raised,
                         value |-> checksum.value, path |-> layer_file_path,
                         files |-> <<>>]
    /\ UNCHANGED <<fs, recipe, args, layers, recipes, procs>>

\* Another program rewrites a file of the data directory.
RewriteFile ==
    /\ \E p \in RewrittenFiles, data \in FileContents :
          /\ data # fs[p].data
          /\ fs' = [fs EXCEPT ![p].data = data]
    /\ result' = [op |-> "rewrite", raised |-> ""]
    /\ UNCHANGED <<recipe, args, layers, recipes, procs>>

\* The layer's _data_finder called with its recipe.
Resolve == \E all_gis_files \in AllGisFileLists : DataFinder("L1", "A", all_gis_files)

InitChecksum ==
    /\ fs = [p \in {ActiveData, FileInGisDirectory} \cup GisFiles \cup SiblingFiles |->
                IF p \in {ActiveData} \cup GisDirectories THEN Directory
                ELSE [kind |-> "file", data |-> <<FileByte(p)>>]]
    /\ recipe = None
    /\ args = None
    /\ result = NoResult
    /\ \E layer_def \in LayerDefs :
          \/ layers = [l \in {"L1"} |-> NewRecipeLayer(layer_def)]
          \/ \E checksum \in SuppliedChecksums :
                layers = [l \in {"L1"} |-> NewRecipeLayerWithChecksum(layer_def, checksum)]
    /\ recipes = [r \in {"A"} |-> <<"L1">>]
    /\ procs = <<>>

NextChecksum ==
    \/ CallCalcDataSourceChecksum
    \/ CallCalcLayerFileChecksum
    \/ RewriteFile
    \/ Resolve

SpecChecksum == InitChecksum /\ [][NextChecksum]_vars

\* The paths of S in lexicographic order.
LexOrder(S) ==
    CHOOSE s \in Orderings(S) : \A i, j \in 1..Len(s) : i < j => StrLess(s[i], s[j])

\* The bytes of the data set of the file path: those of the regular files
\* beside it whose path starts with path minus its extension, lock files
\* left out, in lexicographic path order.
DatasetBytes(path) ==
    ReadAll(LexOrder({p \in DOMAIN fs :
                         /\ Dirname(p) = Dirname(path)
                         /\ StartsWith(p, SplitExtRoot(path))
                         /\ fs[p].kind = "file"
                         /\ ~EndsWith(p, LockExt)}))

\* C14: _calc_data_source_checksum of a data_source_path that is a file
\* returns the hash of the concatenated bytes of the sibling regular files
\* <base>* that are no lock files, in lexicographic path order, whatever
\* order the file system lists them in.
C14_ChecksumOfSortedSiblings ==
    (result.op = "_calc_data_source_checksum" /\ IsFile(result.path)) =>
        /\ result.raised = ""
        /\ result.value = Md5(DatasetBytes(result.path))

\* The checksum of a two-file data set with a lock file beside it, listed
\* with the greater path first.
C14_Witness ==
    /\ result.op = "_calc_data_source_checksum"
    /\ result.path = Join(ActiveData, <<"b", "a", ".", "s">>)
    /\ Len(result.files) = 3
    /\ StrLess(result.files[3], result.files[1])
    /\ result.value = Md5(<<2, 3>>)

\* C15: _calc_data_source_checksum returns the digest of the empty byte
\* sequence, and does not raise, when data_source_path is unset or names
\* nothing on disk; _calc_layer_file_checksum never raises and returns that
\* digest when the layer file does not exist or is empty.
C15_EmptyDigestForAbsent ==
    /\ (/\ result.op = "_calc_data_source_checksum"
        /\ (result.path = None \/ ~Exists(result.path))) =>
           result.raised = "" /\ result.value = Md5(<<>>)
    /\ result.op = "_calc_layer_file_checksum" =>
           /\ result.raised = ""
           /\ (~Exists(result.path) \/ (IsFile(result.path) /\ fs[result.path].data = <<>>)) =>
                 result.value = Md5(<<>>)

\* The checksum of a layer file that does not exist.
C15_Witness ==
    /\ result.op = "_calc_layer_file_checksum"
    /\ result.path = NoSuchFile
    /\ result.value = Md5(<<>>)

\* The regular files under the directory tree.
FilesUnder(path) ==
    {p \in DOMAIN fs : fs[p].kind = "file" /\ StartsWith(p, path \o <<"/">>)}

\* C16: _calc_data_source_checksum of a data_source_path that is a
\* directory does not raise and returns the hash of the concatenated bytes
\* of the files under the directory, in path order.
C16_ChecksumOfDirectory ==
    (result.op = "_calc_data_source_checksum" /\ IsDir(result.path)) =>
        /\ result.raised = ""
        /\ result.value = Md5(ReadAll(LexOrder(FilesUnder(result.path))))

\* C18: after a _data_finder call that succeeded the layer's
\* data_source_checksum is the checksum of the content the data set bound
\* has on disk then, whatever checksum the layer held before and however the
\* files were rewritten before.
C18_ChecksumFreshAfterResolution ==
    (result.op = "_data_finder" /\ result.raised = "") =>
        layers[result.lyr].data_source_checksum
            = Md5(DatasetBytes(layers[result.lyr].data_source_path))

\* A resolution bound a two-file data set both of whose files had been
\* rewritten, one of them emptied.
C18_Witness ==
    /\ result.op = "_data_finder"
    /\ result.raised = ""
    /\ layers["L1"].data_source_path = Join(ActiveData, <<"b", "a", ".", "s">>)
    /\ fs[Join(ActiveData, <<"b", "a", ".", "s">>)].data = <<>>
    /\ fs[Join(ActiveData, <<"b", "a", ".", "x">>)].data = <<1>>
    /\ layers["L1"].data_source_checksum = Md5(<<1>>)

=============================================================================
